---- MODULE Spec2Model ----
(***************************************************************************)
(* Model of MPTD's diffusion/threshold pipeline:                           *)
(*   - SimpleMessage (src/mptd/simple_message.py): the propagation layer,  *)
(*     its dense path (gather, message, scatter-add) and its sparse path   *)
(*     (message_and_aggregate over the transposed adjacency);              *)
(*   - get_clusters (src/mptd/clusterer.py): the loop that accumulates the *)
(*     propagated score, thresholds it at a quantile and renormalizes it;  *)
(*   - get_raw_data (src/mptd/reader.py) and plot_fits_data                *)
(*     (src/mptd/plotter.py): the choice of the genuine and the simulated  *)
(*     event file from the file name, and the files opened on the way.     *)
(*                                                                         *)
(* Scores are float32 numbers in the program.  Here a score is the exact   *)
(* rational its float32 value is the rounding of: a score vector is a      *)
(* record [num, den, exp] whose entry k is num[k] / (den * 2^exp[k]), and  *)
(* a single rational is a pair <<p, q>> with q > 0.  The vector is kept in *)
(* lowest terms, and exp is 0 throughout as long as den stays within       *)
(* MaxDen: beyond it the factors of two move from den into the exponents   *)
(* of the entries that cannot be halved, which is how a score as small as  *)
(* 2^-149 is written with small integers.  float32 holds no positive       *)
(* number below 2^-149: a quotient of at most 2^-150 is stored as 0, which *)
(* the runs of DeepLayers layers (SpecDeep) reach.  Rounding starts        *)
(* with the first division whose quotients float32 cannot hold (rounded);  *)
(* from then on two scores that are equal as rationals may differ in their *)
(* last bits, by the order the sums were taken in (main runs on CUDA,      *)
(* where the scatter-add is not ordered).  The model keeps the outcomes of *)
(* rounding open where they decide something: which of the nodes of        *)
(* largest score hold the largest float32 value (at_max), and which of the *)
(* nodes whose score equals the threshold pass the comparison (mask).      *)
(* Scores that differ as rationals differ by far more than the rounding    *)
(* error at the sizes modelled, so their order is never open.              *)
(* The density clusterer (sklearn's DBSCAN) is an external collaborator:   *)
(* the model keeps its precondition (eps > 0) and leaves its labels out.   *)
(***************************************************************************)
EXTENDS Integers, Sequences, FiniteSets

\* ---------------------------------------------------------------- bounds
MaxNodes == 3        \* get_clusters: number of events N in 1..MaxNodes
MaxEdges == 2        \* get_clusters: length of the edge list
MaxLayers == 2       \* get_clusters: layers in 0..MaxLayers
FwdMaxNodes == 2     \* forward: number of nodes
FwdMaxEdges == 2     \* forward: length of the edge list
MaxPieces == 3       \* get_raw_data: pieces a file name is made of
MaxDen == 1024       \* score vectors: largest even common denominator

\* float32: the smallest positive number is 2^-MinSubnormal
MinSubnormal == 149
\* the number of halvings that take the score 1 out of float32's range
DeepLayers == MinSubnormal + 1

\* quantile values, as fractions <<numerator, denominator>>; 99/100 is main's
Quantiles == {<<1, 4>>, <<1, 2>>, <<99, 100>>}
\* entries of the feature vectors handed to forward
Values == {-1, 2}
\* per-edge weights handed to forward
Weights == {-1, 3}
\* scalars of the linear combinations
Scalars == {-1, 2}

\* ------------------------------------------------------------ arithmetic
Abs(a) == IF a < 0 THEN -a ELSE a

RECURSIVE Gcd(_, _)
Gcd(a, b) == IF b = 0 THEN Abs(a) ELSE Gcd(b, a % b)

RECURSIVE GcdSeq(_)
GcdSeq(s) == IF s = <<>> THEN 0 ELSE Gcd(Head(s), GcdSeq(Tail(s)))

\* the rational p/q (q > 0) in lowest terms
Rat(p, q) == LET g == Gcd(p, q) IN <<p \div g, q \div g>>

\* a <= b * 2^s, for naturals a, b and an integer s, computed without a
\* number beyond 2^31
LeqPow(a, b, s) ==
    IF s = 0 THEN a <= b
    ELSE IF s > 0
    THEN IF s > 30 THEN a = 0 \/ b > 0 ELSE (a + 2^s - 1) \div 2^s <= b
    ELSE IF s < -30 THEN a = 0 ELSE a <= b \div 2^(-s)

\* the vector v with den halved until it is odd or within MaxDen: an even
\* numerator is halved with it, an odd one has its exponent raised
RECURSIVE Shrink(_)
Shrink(v) ==
    IF v.den <= MaxDen \/ v.den % 2 # 0 THEN v
    ELSE Shrink([num |-> [k \in 1..Len(v.num) |->
                             IF v.num[k] % 2 = 0 THEN v.num[k] \div 2
                             ELSE v.num[k]],
                 den |-> v.den \div 2,
                 exp |-> [k \in 1..Len(v.num) |->
                             IF v.num[k] % 2 = 0 THEN v.exp[k]
                             ELSE v.exp[k] + 1]])

\* the vector whose entry k is num[k] / (den * 2^exp[k]) (den > 0), in
\* lowest terms
Scaled(num, den, exp) ==
    LET g == Gcd(GcdSeq(num), den)
    IN  Shrink([num |-> [k \in 1..Len(num) |-> num[k] \div g],
                den |-> den \div g,
                exp |-> exp])

\* the vector num/den (den > 0) in lowest terms
Vec(num, den) == Scaled(num, den, [k \in 1..Len(num) |-> 0])

\* entry j of the vector v is at most its entry k
Leq(v, j, k) == LeqPow(v.num[j], v.num[k], v.exp[j] - v.exp[k])

RECURSIVE SeqMax(_)
SeqMax(s) == IF Len(s) = 1 THEN s[1]
             ELSE LET m == SeqMax(Tail(s)) IN IF s[1] >= m THEN s[1] ELSE m

RECURSIVE Insert(_, _)
Insert(v, s) == IF s = <<>> THEN <<v>>
                ELSE IF v <= Head(s) THEN <<v>> \o s
                ELSE <<Head(s)>> \o Insert(v, Tail(s))

RECURSIVE Sort(_)
Sort(s) == IF s = <<>> THEN <<>> ELSE Insert(Head(s), Sort(Tail(s)))

RECURSIVE InsertBy(_, _, _)
InsertBy(k, s, v) == IF s = <<>> THEN <<k>>
                     ELSE IF Leq(v, k, Head(s)) THEN <<k>> \o s
                     ELSE <<Head(s)>> \o InsertBy(k, Tail(s), v)

\* the index of a largest of the first m entries of the vector v
RECURSIVE Largest(_, _)
Largest(v, m) == IF m = 1 THEN 1
                 ELSE LET k == Largest(v, m - 1)
                      IN  IF Leq(v, m, k) THEN k ELSE m

\* the first m indices of the vector v, in ascending order of their entries
RECURSIVE Order(_, _)
Order(v, m) == IF m = 0 THEN <<>> ELSE InsertBy(m, Order(v, m - 1), v)

\* boolean-mask indexing t[mask]
RECURSIVE Select(_, _)
Select(t, m) == IF t = <<>> THEN <<>>
                ELSE (IF Head(m) THEN <<Head(t)>> ELSE <<>>)
                     \o Select(Tail(t), Tail(m))

Count(m) == Cardinality({k \in 1..Len(m) : m[k]})

\* ceil(a / b) for a >= 0, b > 0
CeilDiv(a, b) == (a + b - 1) \div b

\* d is a power of two: the quotients k/d are float32 numbers
RECURSIVE IsPow2(_)
IsPow2(d) == d = 1 \/ (d > 1 /\ d % 2 = 0 /\ IsPow2(d \div 2))

\* the exponent of the power of two d
RECURSIVE Log2(_)
Log2(d) == IF d <= 1 THEN 0 ELSE 1 + Log2(d \div 2)

\* the number of times 2 divides a > 0
RECURSIVE TwoAdic(_)
TwoAdic(a) == IF a % 2 # 0 THEN 0 ELSE 1 + TwoAdic(a \div 2)

\* every entry of v (den a power of two) is a multiple of 2^-MinSubnormal,
\* as the float32 numbers below 2^-126 are
OnGrid(v) ==
    LET d == Log2(v.den)
    IN  \A k \in 1..Len(v.num) :
            \/ v.num[k] = 0
            \/ d + v.exp[k] <= MinSubnormal
            \/ d + v.exp[k] <= MinSubnormal + TwoAdic(v.num[k])

\* --------------------------------------------------- SimpleMessage layer
\* An edge list is a sequence of pairs <<source, target>> (the columns of
\* the 2 x E tensor edge_index), nodes numbered from 1.  An optional tensor
\* is a record: [some |-> FALSE] for None, [some |-> TRUE, w |-> values].
None == [some |-> FALSE, w |-> <<>>]
Some(w) == [some |-> TRUE, w |-> w]

Zeros(n) == [k \in 1..n |-> 0]

\* x_j: the features of each edge's source node (flow source_to_target)
gather(x, edge_index) == [e \in 1..Len(edge_index) |-> x[edge_index[e][1]]]

\* variant of message: the weight added instead of multiplied
messageAffine(x_j, edge_weight) ==
    IF ~edge_weight.some THEN x_j
    ELSE [e \in 1..Len(x_j) |-> edge_weight.w[e] + x_j[e]]

\* variant of message: the weight dropped
messageUnweighted(x_j, edge_weight) == x_j

\* SimpleMessage.message: x_j, scaled by the edge weight when one is given
message(x_j, edge_weight) ==
    IF ~edge_weight.some THEN x_j
    ELSE [e \in 1..Len(x_j) |-> edge_weight.w[e] * x_j[e]]

\* aggr = 'add': scatter-add of the messages onto the target nodes,
\* edge by edge, into acc
RECURSIVE aggregate(_, _, _)
aggregate(msgs, edge_index, acc) ==
    IF msgs = <<>> THEN acc
    ELSE LET t == Head(edge_index)[2]
         IN  aggregate(Tail(msgs), Tail(edge_index),
                       [acc EXCEPT ![t] = @ + Head(msgs)])

\* the dense path of propagate: gather, message, aggregate
propagate_dense(edge_index, x, edge_weight) ==
    aggregate(message(gather(x, edge_index), edge_weight), edge_index,
              Zeros(Len(x)))

RECURSIVE SumOver(_, _)
SumOver(S, f) == IF S = {} THEN 0
                 ELSE LET e == CHOOSE e \in S : TRUE
                      IN  f[e] + SumOver(S \ {e}, f)

\* the transposed adjacency: entry [r][c] holds the value of the edges
\* c -> r (1 per edge when no weight is stored)
adj_t(edge_index, edge_weight, n) ==
    LET val == [e \in 1..Len(edge_index) |->
                    IF edge_weight.some THEN edge_weight.w[e] ELSE 1]
    IN  [r \in 1..n |-> [c \in 1..n |->
            SumOver({e \in 1..Len(edge_index) :
                        edge_index[e][2] = r /\ edge_index[e][1] = c}, val)]]

\* variant of message_and_aggregate: the adjacency read untransposed
message_and_aggregateUntransposed(adj, x) ==
    [r \in 1..Len(x) |-> SumOver(1..Len(x), [c \in 1..Len(x) |-> adj[c][r] * x[c]])]

\* SimpleMessage.message_and_aggregate: spmm(adj_t, x, reduce = 'add')
message_and_aggregate(adj, x) ==
    [r \in 1..Len(x) |-> SumOver(1..Len(x), [c \in 1..Len(x) |-> adj[r][c] * x[c]])]

\* propagate: the adjacency is either an edge list (layout "edge_list") or
\* the sparse transposed adjacency of edge_index with the stored values
\* adj_value (layout "sparse").  A sparse adjacency takes the fused path,
\* message_and_aggregate(adj_t, x), which is not handed edge_weight; an
\* edge list takes the dense one.
propagate(layout, edge_index, adj_value, x, edge_weight) ==
    IF layout = "sparse"
    THEN message_and_aggregate(adj_t(edge_index, adj_value, Len(x)), x)
    ELSE propagate_dense(edge_index, x, edge_weight)

\* ------------------------------------------------------------- inputs
Enc(e, n) == (e[1] - 1) * n + e[2]

\* edge lists of at most m edges over n nodes, in the (source, target)
\* order in which the graph transform emits them; parallel edges allowed
EdgeLists(n, m) ==
    UNION {{s \in [1..k -> (1..n) \X (1..n)] :
               \A e \in 1..(k - 1) : Enc(s[e], n) <= Enc(s[e + 1], n)}
           : k \in 0..m}

\* optional weight tensors for an edge list of E edges
EdgeWeights(E) == {None} \cup {Some(w) : w \in [1..E -> Weights]}

\* edge_weight arguments tried along a sparse adjacency
SparseCallWeights(E) == {None, Some([e \in 1..E |-> 3])}

\* edge-distance tensors handed to get_clusters, which reads their median
\* only: one with a positive median, one whose median is 0
DistanceTensors == {<<0, 2, 2>>, <<0, 0, 2>>}

\* the is-simulated column of the table read_events returns: the column
\* the simulated file stores, in whatever order it stores it (lines 55-58),
\* or the column built at lines 62-71, the simulated events first and the
\* genuine ones after them
Flags(n) == [1..n -> BOOLEAN]

\* ---------------------------------------------------------------- state
VARIABLES
    n,               \* number of nodes (rows of net_data.x)
    edge_index,      \* the edge list
    pc,              \* position in the function that runs
    error,           \* the exception raised, "" when none
    \* get_clusters
    x,               \* net_data.x: one row per event (a row is its id)
    y,               \* net_data.y: the is-simulated flags
    layers,          \* the iteration count L
    quantile,        \* the quantile q, a fraction
    distances,       \* the edge distances
    i,               \* iterations completed
    elaborated_data, \* the score vector
    rounded,         \* some score is a rounded value
    at_max,          \* the nodes whose float32 score is the largest
    bound,           \* the loop-body locals that are bound
    threshold,       \* local threshold, a rational
    mask,            \* local mask
    masked_data,     \* returned: net_data.x[mask]
    masked_sizes,    \* returned: sizes[mask], a sequence of rationals
    \* forward
    fx,              \* the node features handed to forward
    edge_weight,     \* the optional per-edge weights
    layout,          \* "edge_list" or "sparse": the form of the adjacency
    adj_value,       \* the values a sparse adjacency stores, optional
    out,             \* the tensor forward returned
    propagations,    \* number of propagate calls made
    \* get_raw_data, plot_fits_data
    entry,           \* the function called: "get_raw_data" or "plot_fits_data"
    filename,        \* the file name, a sequence of characters
    present,         \* the names of the files that exist
    columns,         \* the flag columns each existing file stores
    calls,           \* the read_events calls made: pairs <<genuine, simulated>>
    opened,          \* the files opened, in order
    table            \* the table read_events handed back, optional

gcVars == <<x, y, layers, quantile, distances, i, elaborated_data, rounded, at_max,
            bound, threshold, mask, masked_data, masked_sizes>>
fwdVars == <<fx, edge_weight, layout, adj_value, out, propagations>>
rdVars == <<entry, filename, present, columns, calls, opened, table>>
vars == <<n, edge_index, pc, error, gcVars, fwdVars, rdVars>>

\* no table
NoTable == [some |-> FALSE, genuine |-> <<>>, simulated |-> <<>>, stored |-> FALSE]

IdleReader ==
    /\ entry = ""
    /\ filename = <<>>
    /\ present = {}
    /\ columns = <<>>
    /\ calls = <<>>
    /\ opened = <<>>
    /\ table = NoTable

\* ------------------------------------------------------------ get_clusters
\* torch.quantile(sizes, q): linear interpolation between the order
\* statistics around rank q * (N - 1)
torch_quantile(sizes, q) ==
    LET s    == Order(sizes, Len(sizes.num))
        rank == q[1] * (Len(s) - 1)
        lo   == rank \div q[2]
        r    == rank % q[2]
        hi   == IF r = 0 THEN lo ELSE lo + 1
        ea   == sizes.exp[s[lo + 1]]
        eb   == sizes.exp[s[hi + 1]]
        e    == IF ea >= eb THEN ea ELSE eb
        a    == sizes.num[s[lo + 1]] * 2^(e - ea)
        b    == sizes.num[s[hi + 1]] * 2^(e - eb)
    IN  Rat(a * q[2] + r * (b - a), q[2] * sizes.den * 2^e)

\* variant of ge_threshold: the comparison made strict
ge_thresholdStrict(sizes, thr) ==
    [k \in 1..Len(sizes.num) |->
        ~LeqPow(sizes.num[k] * thr[2], thr[1] * sizes.den, sizes.exp[k])]

\* sizes >= threshold, elementwise
ge_threshold(sizes, thr) ==
    [k \in 1..Len(sizes.num) |->
        LeqPow(thr[1] * sizes.den, sizes.num[k] * thr[2], -sizes.exp[k])]

\* sizes <= threshold, elementwise
le_threshold(sizes, thr) ==
    [k \in 1..Len(sizes.num) |->
        LeqPow(sizes.num[k] * thr[2], thr[1] * sizes.den, sizes.exp[k])]

\* the nodes whose score is the largest, as rationals
argmax(sizes) ==
    LET m == Largest(sizes, Len(sizes.num))
    IN  {k \in 1..Len(sizes.num) : Leq(sizes, m, k)}

\* the sets of nodes that can hold the largest float32 score: all of
\* argmax while the scores are exact, any of them once they are rounded
float_argmax(sizes, r) ==
    IF r THEN SUBSET argmax(sizes) \ {{}} ELSE {argmax(sizes)}

\* the masks sizes >= threshold can give.  The exact comparison decides
\* for every node whose score differs from thr.  Of the nodes whose score
\* equals thr as a rational (tie), rounding can keep any set S that holds
\* the nodes of largest float32 score (top) and fills the sorted positions
\* from ceil(q * (N - 1)) upwards, which the interpolated threshold never
\* exceeds; while the scores are exact it keeps them all.
float_masks(sizes, thr, q, top, r) ==
    LET N      == Len(sizes.num)
        full   == ge_threshold(sizes, thr)
        below  == le_threshold(sizes, thr)
        tie    == {k \in 1..N :
                      /\ below[k]
                      /\ LeqPow(thr[1] * sizes.den, sizes.num[k] * thr[2],
                                -sizes.exp[k])}
        atmost == {k \in 1..N : below[k]}
        need   == Cardinality(atmost) - CeilDiv(q[1] * (N - 1), q[2])
    IN  IF ~r THEN {full}
        ELSE {[k \in 1..N |-> full[k] /\ (k \notin tie \/ k \in S)] :
                 S \in {T \in SUBSET tie :
                           Cardinality(T) >= need /\ (top \cap tie) \subseteq T}}

\* distances.median(): the lower middle value of a tensor that is not empty
torch_median(d) == Sort(d)[(Len(d) + 1) \div 2]

\* line 33: eps = distances.median().item() / 2, a rational
dbscan_eps(d) == Rat(torch_median(d), 2)

\* sizes is a view of column 0 of elaborated_data: once bound it reads the
\* tensor's current contents
sizes == elaborated_data

IdleForward ==
    /\ fx = [tuple |-> FALSE, val |-> <<>>]
    /\ edge_weight = None
    /\ layout = "edge_list"
    /\ adj_value = None
    /\ out = <<>>
    /\ propagations = 0

\* line 20: elaborated_data = ones_like(x[:, 0])
Init ==
    /\ n \in 1..MaxNodes
    /\ edge_index \in EdgeLists(n, MaxEdges)
    /\ x = [k \in 1..n |-> k]
    /\ y \in Flags(n)
    /\ layers \in 0..MaxLayers
    /\ quantile \in Quantiles
    /\ distances \in DistanceTensors
    /\ pc = "for"
    /\ error = ""
    /\ i = 0
    /\ elaborated_data = Vec([k \in 1..n |-> 1], 1)
    /\ rounded = FALSE
    /\ at_max = 1..n
    /\ bound = {}
    /\ threshold = <<0, 1>>
    /\ mask = <<>>
    /\ masked_data = <<>>
    /\ masked_sizes = <<>>
    /\ IdleForward
    /\ IdleReader

\* variant of Accumulate: propagation over the edges between the nodes the
\* last mask kept
AccumulatePruned ==
    /\ pc = "for"
    /\ i < layers
    /\ LET kept == IF "mask" \in bound THEN mask ELSE [k \in 1..n |-> TRUE]
           live == Select(edge_index,
                          [e \in 1..Len(edge_index) |->
                              kept[edge_index[e][1]] /\ kept[edge_index[e][2]]])
           prop == propagate("edge_list", live, None, elaborated_data.num, None)
       IN  elaborated_data' =
              Vec([k \in 1..n |-> elaborated_data.num[k] + prop[k]],
                  elaborated_data.den)
    /\ at_max' \in float_argmax(elaborated_data', rounded)
    /\ pc' = "threshold"
    /\ UNCHANGED <<n, edge_index, error, x, y, layers, quantile, distances, i,
                   rounded, bound, threshold, mask, masked_data, masked_sizes,
                   fwdVars, rdVars>>

\* variant of Accumulate: the simulated events contribute nothing
AccumulateFlagged ==
    /\ pc = "for"
    /\ i < layers
    /\ LET src  == [k \in 1..n |-> IF y[k] THEN 0 ELSE elaborated_data.num[k]]
           prop == propagate("edge_list", edge_index, None, src, None)
       IN  elaborated_data' =
              Vec([k \in 1..n |-> elaborated_data.num[k] + prop[k]],
                  elaborated_data.den)
    /\ at_max' \in float_argmax(elaborated_data', rounded)
    /\ pc' = "threshold"
    /\ UNCHANGED <<n, edge_index, error, x, y, layers, quantile, distances, i,
                   rounded, bound, threshold, mask, masked_data, masked_sizes,
                   fwdVars, rdVars>>

\* variant of Accumulate: the propagated score replaces the score
AccumulateReplace ==
    /\ pc = "for"
    /\ i < layers
    /\ elaborated_data' =
          Vec(propagate("edge_list", edge_index, None, elaborated_data.num, None),
              elaborated_data.den)
    /\ at_max' \in float_argmax(elaborated_data', rounded)
    /\ pc' = "threshold"
    /\ UNCHANGED <<n, edge_index, error, x, y, layers, quantile, distances, i,
                   rounded, bound, threshold, mask, masked_data, masked_sizes,
                   fwdVars, rdVars>>

\* v + forward(v, ei).  Entries written at one exponent are added as
\* integers.  Where the exponents differ, propagation being linear, the
\* entries written at each exponent are propagated apart, and a node's new
\* score is the sum of what it holds and receives at each exponent, written
\* at the largest exponent it holds or receives anything at.
add_forward(v, ei) ==
    LET N == Len(v.num)
    IN  IF \A k \in 1..N : v.exp[k] = v.exp[1]
        THEN LET prop == propagate("edge_list", ei, None, v.num, None)
             IN  Scaled([k \in 1..N |-> v.num[k] + prop[k]], v.den, v.exp)
        ELSE LET E     == {v.exp[k] : k \in 1..N}
                 held  == [e \in E |->
                              [k \in 1..N |-> IF v.exp[k] = e THEN v.num[k] ELSE 0]]
                 sum   == [e \in E |->
                              LET prop == propagate("edge_list", ei, None, held[e], None)
                              IN  [k \in 1..N |-> held[e][k] + prop[k]]]
                 at    == [k \in 1..N |->
                              LET S == {e \in E : sum[e][k] # 0}
                              IN  IF S = {} THEN 0
                                  ELSE CHOOSE e \in S : \A f \in S : f <= e]
                 term  == [k \in 1..N |-> [e \in E |->
                              IF sum[e][k] = 0 THEN 0
                              ELSE sum[e][k] * 2^(at[k] - e)]]
             IN  Scaled([k \in 1..N |-> SumOver(E, term[k])], v.den, at)

\* line 23-24: another iteration; elaborated_data += forward(elaborated_data,
\* edge_index), a plain tensor and no edge weight; the rounding of the
\* sums settles which nodes hold the largest float32 score
Accumulate ==
    /\ pc = "for"
    /\ i < layers
    /\ elaborated_data' = add_forward(elaborated_data, edge_index)
    /\ at_max' \in float_argmax(elaborated_data', rounded)
    /\ pc' = "threshold"
    /\ UNCHANGED <<n, edge_index, error, x, y, layers, quantile, distances, i,
                   rounded, bound, threshold, mask, masked_data, masked_sizes,
                   fwdVars, rdVars>>

\* variant of Threshold: threshold and mask taken from the score divided
\* by its maximum
ThresholdAfterDivide ==
    /\ pc = "threshold"
    /\ LET scaled == Vec(sizes.num, SeqMax(sizes.num))
       IN  /\ threshold' = torch_quantile(scaled, quantile)
           /\ mask' \in float_masks(scaled, threshold', quantile, at_max, rounded)
    /\ bound' = {"sizes", "threshold", "mask"}
    /\ pc' = "renormalize"
    /\ UNCHANGED <<n, edge_index, error, x, y, layers, quantile, distances, i,
                   elaborated_data, rounded, at_max, masked_data, masked_sizes,
                   fwdVars, rdVars>>

\* lines 26-28: sizes, threshold and mask; the comparison is made on the
\* float32 scores
Threshold ==
    /\ pc = "threshold"
    /\ threshold' = torch_quantile(sizes, quantile)
    /\ mask' \in float_masks(sizes, threshold', quantile, at_max, rounded)
    /\ bound' = {"sizes", "threshold", "mask"}
    /\ pc' = "renormalize"
    /\ UNCHANGED <<n, edge_index, error, x, y, layers, quantile, distances, i,
                   elaborated_data, rounded, at_max, masked_data, masked_sizes,
                   fwdVars, rdVars>>

\* variant of Renormalize: division by the sum of the scores
RenormalizeBySum ==
    /\ pc = "renormalize"
    /\ elaborated_data' =
          Vec(elaborated_data.num,
              SumOver(1..n, elaborated_data.num))
    /\ rounded' = (rounded \/ ~IsPow2(elaborated_data'.den))
    /\ i' = i + 1
    /\ pc' = "for"
    /\ UNCHANGED <<n, edge_index, error, x, y, layers, quantile, distances, at_max,
                   bound, threshold, mask, masked_data, masked_sizes, fwdVars,
                   rdVars>>

\* v / v.max(), in float32: a quotient of at most 2^-(MinSubnormal + 1),
\* half the smallest positive float32 number, is stored as 0
divide_by_max(v) ==
    LET N       == Len(v.num)
        m       == Largest(v, N)
        up(k)   == IF v.exp[m] > v.exp[k] THEN v.exp[m] - v.exp[k] ELSE 0
        down(k) == IF v.exp[k] > v.exp[m] THEN v.exp[k] - v.exp[m] ELSE 0
        zero    == [k \in 1..N |->
                       LeqPow(v.num[k] * 2^up(k), v.num[m],
                              down(k) - (MinSubnormal + 1))]
    IN  Scaled([k \in 1..N |-> IF zero[k] THEN 0 ELSE v.num[k] * 2^up(k)],
               v.num[m],
               [k \in 1..N |-> IF zero[k] THEN 0 ELSE down(k)])

\* line 31: elaborated_data /= elaborated_data.max(), in place; the nodes
\* of largest float32 score get exactly 1, a quotient below float32's range
\* becomes 0, and the other quotients are rounded unless the common
\* denominator is a power of two and they are float32 numbers
Renormalize ==
    /\ pc = "renormalize"
    /\ elaborated_data' = divide_by_max(elaborated_data)
    /\ rounded' = (rounded \/ ~IsPow2(elaborated_data'.den)
                           \/ ~OnGrid(elaborated_data'))
    /\ i' = i + 1
    /\ pc' = "for"
    /\ UNCHANGED <<n, edge_index, error, x, y, layers, quantile, distances, at_max,
                   bound, threshold, mask, masked_data, masked_sizes, fwdVars,
                   rdVars>>

\* lines 33-40, after the loop: reading a local the loop never bound
\* raises (line 35); fit_predict refuses an eps that is not positive (line
\* 38); otherwise net_data.x[mask] and sizes[mask] are returned
Finish ==
    /\ pc = "for"
    /\ i = layers
    /\ IF "mask" \notin bound
       THEN /\ pc' = "raised"
            /\ error' = "UnboundLocalError"
            /\ UNCHANGED <<masked_data, masked_sizes>>
       ELSE IF dbscan_eps(distances)[1] <= 0
       THEN /\ pc' = "raised"
            /\ error' = "ValueError"
            /\ UNCHANGED <<masked_data, masked_sizes>>
       ELSE /\ masked_data' = Select(x, mask)
            /\ masked_sizes' =
                  LET kept == Select([k \in 1..n |-> k], mask)
                  IN  [j \in 1..Len(kept) |->
                          Rat(sizes.num[kept[j]],
                              sizes.den * 2^sizes.exp[kept[j]])]
            /\ pc' = "returned"
            /\ error' = ""
    /\ UNCHANGED <<n, edge_index, x, y, layers, quantile, distances, i,
                   elaborated_data, rounded, at_max, bound, threshold, mask,
                   fwdVars, rdVars>>

Next == Accumulate \/ Threshold \/ Renormalize \/ Finish

Spec == Init /\ [][Next]_vars

\* the nodes of the edge list ei that have an incoming edge
Targets(ei) == {ei[e][2] : e \in 1..Len(ei)}

\* edge lists over nn nodes in which every node has at most one incoming
\* edge, every edge comes from a node that has one, and two nodes at least
\* have one: the scores of these nodes double in every accumulation and are
\* halved back to 1, the score of any other node is halved and nothing else
LinkedEdgeLists(nn) ==
    {ei \in EdgeLists(nn, MaxEdges) :
        /\ Len(ei) = Cardinality(Targets(ei))
        /\ \A e \in 1..Len(ei) : ei[e][1] \in Targets(ei)
        /\ Cardinality(Targets(ei)) >= 2}

\* get_clusters called with as many layers as take a halved score out of
\* float32's range, at main's quantile, over the graphs whose scores stay
\* powers of two
InitDeep ==
    /\ n \in 2..MaxNodes
    /\ edge_index \in LinkedEdgeLists(n)
    /\ x = [k \in 1..n |-> k]
    /\ y = [k \in 1..n |-> FALSE]
    /\ layers = DeepLayers
    /\ quantile = <<99, 100>>
    /\ distances = <<0, 2, 2>>
    /\ pc = "for"
    /\ error = ""
    /\ i = 0
    /\ elaborated_data = Vec([k \in 1..n |-> 1], 1)
    /\ rounded = FALSE
    /\ at_max = 1..n
    /\ bound = {}
    /\ threshold = <<0, 1>>
    /\ mask = <<>>
    /\ masked_data = <<>>
    /\ masked_sizes = <<>>
    /\ IdleForward
    /\ IdleReader

\* the runs of Spec and the runs of many layers
SpecDeep == (Init \/ InitDeep) /\ [][Next]_vars

\* --------------------------------------------- the loop as a pure function
\* The loop of get_clusters over the edge list ei and n nodes, as a function
\* of its inputs alone.  LoopRun(ei, nn, k) is iteration k (k >= 1):
\*   acc     the score vector between its accumulation and its division by
\*           the maximum,
\*   score   the score vector after the division,
\*   before  whether the scores it started from were rounded,
\*   rounded whether the scores it ends with are.
\* The vectors are the exact values the float32 scores are roundings of,
\* for the iterations whose quotients float32's range holds (the runs of
\* at most MaxLayers layers: every exponent is 0).
RECURSIVE LoopRun(_, _, _)
LoopRun(ei, nn, k) ==
    IF k = 0
    THEN [acc     |-> Vec([j \in 1..nn |-> 1], 1),
          score   |-> Vec([j \in 1..nn |-> 1], 1),
          before  |-> FALSE,
          rounded |-> FALSE]
    ELSE LET prev  == LoopRun(ei, nn, k - 1)
             prop  == propagate_dense(ei, prev.score.num, None)
             acc   == Vec([j \in 1..nn |-> prev.score.num[j] + prop[j]],
                          prev.score.den)
             score == Vec(acc.num, SeqMax(acc.num))
         IN  [acc     |-> acc,
              score   |-> score,
              before  |-> prev.rounded,
              rounded |-> prev.rounded \/ ~IsPow2(score.den)]

LoopAccumulated(ei, nn, k) == LoopRun(ei, nn, k).acc

LoopScore(ei, nn, k) == LoopRun(ei, nn, k).score

\* the masks iteration k can give against its threshold, whichever way its
\* scores are rounded
LoopMasks(ei, nn, q, k) ==
    LET run == LoopRun(ei, nn, k)
    IN  float_masks(run.acc, torch_quantile(run.acc, q), q, {}, run.before)

Finished == pc \in {"returned", "raised"}

AllTrue(m) == \A k \in 1..Len(m) : m[k]

\* ------------------------------------------------------------------ C1
\* C1: get_clusters called with layers = 0 completes without an error and
\* returns every node: the mask is all true and every returned score is the
\* initial value 1.
C1_ZeroLayersReturnsAll ==
    (layers = 0 /\ Finished) =>
        /\ pc = "returned"
        /\ error = ""
        /\ Len(mask) = n /\ AllTrue(mask)
        /\ masked_sizes = [k \in 1..n |-> <<1, 1>>]

C3_MaxIsOneAfterRenormalize ==
    (i >= 1 /\ pc \in {"for", "returned"}) =>
        Rat(SeqMax(elaborated_data.num), elaborated_data.den) = <<1, 1>>

\* the end of the second iteration, with a node whose score is below 1
C3_Witness ==
    /\ pc = "for"
    /\ i = 2
    /\ \E k \in 1..n : elaborated_data.num[k] < elaborated_data.den

\* ------------------------------------------------------------------ C7
\* C7: every iteration runs accumulate, then threshold and mask from the
\* score not yet renormalized, then renormalize: when iteration k is about
\* to divide, the score is the accumulated one of iteration k, the
\* threshold its quantile and the mask one of those it gives against that
\* threshold; the run returns after the division of iteration L, with the
\* threshold and a mask of iteration L.
C7_OrderAndLastMask ==
    LET k     == IF pc = "renormalize" THEN i + 1 ELSE i
        run   == LoopRun(edge_index, n, k)
        thr   == torch_quantile(run.acc, quantile)
        masks == float_masks(run.acc, thr, quantile, {}, run.before)
    IN  /\ pc = "renormalize" =>
              /\ elaborated_data = run.acc
              /\ threshold = thr
              /\ mask \in masks
        /\ pc = "returned" =>
              /\ i = layers
              /\ elaborated_data = run.score
              /\ threshold = thr
              /\ mask \in masks

\* a run of two iterations returns, its threshold differing from the
\* quantile of the renormalized score and its mask from the first
\* iteration's
C7_Witness ==
    /\ pc = "returned"
    /\ layers = 2
    /\ threshold # torch_quantile(elaborated_data, quantile)
    /\ mask \notin LoopMasks(edge_index, n, quantile, 1)

\* ------------------------------------------------------------------ C8
\* C8: the loop leaves the graph unchanged, and every iteration propagates
\* over the whole edge list and all N nodes: the accumulation adds to each
\* node the scores of the sources of all its incoming edges, whatever the
\* mask of the iteration before selected.
C8_GraphFixedEveryIteration ==
    [][ /\ edge_index' = edge_index
        /\ n' = n
        /\ x' = x
        /\ (pc = "for" /\ pc' = "threshold") =>
              elaborated_data' =
                 Vec([k \in 1..n |->
                         elaborated_data.num[k] +
                         SumOver({e \in 1..Len(edge_index) : edge_index[e][2] = k},
                                 [e \in 1..Len(edge_index) |->
                                     elaborated_data.num[edge_index[e][1]]])],
                     elaborated_data.den) ]_vars

\* an accumulation of a later iteration, over an edge whose source the
\* mask of the iteration before left out, the target's score having grown
C8_Witness ==
    /\ pc = "threshold"
    /\ i >= 1
    /\ \E e \in 1..Len(edge_index) :
          /\ ~mask[edge_index[e][1]]
          /\ LET prev == LoopScore(edge_index, n, i)
                 t    == edge_index[e][2]
             IN  elaborated_data.num[t] * prev.den
                    > prev.num[t] * elaborated_data.den

\* ------------------------------------------------------------------ C9
\* C9: the is-simulated flags (net_data.y) do not influence the result:
\* the outcome and the scores are determined by the edges, the distances,
\* N, L and q alone, the mask is one of those these scores give, and the
\* returned scores and surviving points are the ones the mask selects.
C9_ResultIndependentOfFlags ==
    Finished =>
        IF layers = 0
        THEN pc = "raised" /\ error = "UnboundLocalError"
        ELSE LET run == LoopRun(edge_index, n, layers)
                 s   == run.score
             IN  /\ mask \in float_masks(run.acc, torch_quantile(run.acc, quantile),
                                         quantile, {}, run.before)
                 /\ elaborated_data = s
                 /\ IF torch_median(distances) <= 0
                    THEN pc = "raised" /\ error = "ValueError"
                    ELSE /\ pc = "returned"
                         /\ masked_sizes =
                               Select([k \in 1..n |-> Rat(s.num[k], s.den)], mask)
                         /\ masked_data = Select([k \in 1..n |-> k], mask)

\* a returned run over genuine and simulated events alike, a genuine one
\* stored between two simulated ones, the mask keeping one kind only
C9_Witness ==
    /\ pc = "returned"
    /\ n = 3
    /\ y = <<TRUE, FALSE, TRUE>>
    /\ \/ \A k \in 1..n : mask[k] => y[k]
       \/ \A k \in 1..n : mask[k] => ~y[k]

\* ---------------------------------------------------- SimpleMessage.forward
\* One call of forward.  fx is the node-feature argument: a tensor of one
\* value per node, or (tuple = TRUE) a pair of such tensors, as bipartite
\* layers accept.  Under layout "sparse" the adjacency argument is the
\* sparse adj_t(edge_index, adj_value, n), which stores its own weights.
IdleClusters ==
    /\ x = <<>>
    /\ y = <<>>
    /\ layers = 0
    /\ quantile = <<1, 2>>
    /\ distances = <<>>
    /\ i = 0
    /\ elaborated_data = [num |-> <<>>, den |-> 1, exp |-> <<>>]
    /\ rounded = FALSE
    /\ at_max = {}
    /\ bound = {}
    /\ threshold = <<0, 1>>
    /\ mask = <<>>
    /\ masked_data = <<>>
    /\ masked_sizes = <<>>

InitForward ==
    /\ n \in 1..FwdMaxNodes
    /\ edge_index \in EdgeLists(n, FwdMaxEdges)
    /\ layout \in {"edge_list", "sparse"}
    /\ IF layout = "sparse"
       THEN /\ adj_value \in EdgeWeights(Len(edge_index))
            /\ edge_weight \in SparseCallWeights(Len(edge_index))
       ELSE /\ adj_value = None
            /\ edge_weight \in EdgeWeights(Len(edge_index))
    /\ fx \in [tuple : BOOLEAN, val : [1..n -> Values]]
    /\ pc = "forward"
    /\ error = ""
    /\ out = <<>>
    /\ propagations = 0
    /\ IdleClusters
    /\ IdleReader

\* variant of Forward: no check of the kind of the node features
ForwardUnchecked ==
    /\ pc = "forward"
    /\ out' = propagate(layout, edge_index, adj_value, fx.val, edge_weight)
    /\ propagations' = propagations + 1
    /\ pc' = "returned"
    /\ UNCHANGED <<n, edge_index, error, gcVars, fx, edge_weight, layout, adj_value,
                 rdVars>>

\* lines 68-79: a tuple or list of node features is refused, anything else
\* is propagated and the result returned
Forward ==
    /\ pc = "forward"
    /\ IF fx.tuple
       THEN /\ pc' = "raised"
            /\ error' = "ValueError"
            /\ UNCHANGED <<out, propagations>>
       ELSE /\ out' = propagate(layout, edge_index, adj_value, fx.val, edge_weight)
            /\ propagations' = propagations + 1
            /\ pc' = "returned"
            /\ error' = ""
    /\ UNCHANGED <<n, edge_index, gcVars, fx, edge_weight, layout, adj_value,
                 rdVars>>

NextForward == Forward

SpecForward == InitForward /\ [][NextForward]_vars

\* the weights of the graph handed to forward: the values a sparse
\* adjacency stores, the edge_weight tensor that comes with an edge list
GraphWeight == IF layout = "sparse" THEN adj_value ELSE edge_weight

\* the value edge e carries: its weight, or 1 when no weights are given
EdgeValue(e) == IF GraphWeight.some THEN GraphWeight.w[e] ELSE 1

Incoming(k) == {e \in 1..Len(edge_index) : edge_index[e][2] = k}

\* a * u + b * v, elementwise
Combine(a, u, b, v) == [k \in 1..Len(u) |-> a * u[k] + b * v[k]]

\* ------------------------------------------------------------------ C4
\* C4: forward returns, for every node k, the sum over the edges (s, t)
\* with t = k of (the edge's weight, or 1 without weights) * x[s]; a node
\* with no incoming edge gets 0, an empty edge list gives the all-zero
\* vector of N entries, and x is not modified.
C4_ForwardIsWeightedInSum ==
    /\ [](pc = "returned" =>
            /\ Len(out) = n
            /\ \A k \in 1..n :
                  /\ out[k] = SumOver(Incoming(k),
                                 [e \in 1..Len(edge_index) |->
                                     EdgeValue(e) * fx.val[edge_index[e][1]]])
                  /\ Incoming(k) = {} => out[k] = 0
            /\ edge_index = <<>> => out = Zeros(n))
    /\ [][fx' = fx]_vars

\* a weighted call returned, one node without incoming edge and one whose
\* result is not zero
C4_Witness ==
    /\ pc = "returned"
    /\ layout = "edge_list"
    /\ edge_weight.some
    /\ \E j, k \in 1..n : Incoming(j) = {} /\ out[k] # 0

\* ------------------------------------------------------------------ C5
\* C5: propagation is linear: for all vectors x, v and scalars a, b,
\* propagate(a x + b v) = a propagate(x) + b propagate(v).
C5_PropagateIsLinear ==
    pc = "returned" =>
        \A v \in [1..n -> Values] : \A a, b \in Scalars :
            propagate(layout, edge_index, adj_value, Combine(a, fx.val, b, v),
                      edge_weight)
               = Combine(a, out, b,
                         propagate(layout, edge_index, adj_value, v, edge_weight))

\* a weighted call over the edge list returned a result that is not zero
C5_Witness ==
    /\ pc = "returned"
    /\ layout = "edge_list"
    /\ edge_weight.some
    /\ out # Zeros(n)

\* ------------------------------------------------------------------ C6
\* C6: for the same graph, scores and optional weights of the graph (the
\* edge_weight of an edge list, the stored values of a sparse adjacency),
\* the dense path (edge list, message, scatter-add) and the sparse path
\* (message_and_aggregate over the transposed adjacency) return equal
\* results: whichever path forward took, its result is that of the other.
C6_DenseEqualsSparse ==
    pc = "returned" =>
        /\ out = propagate_dense(edge_index, fx.val, GraphWeight)
        /\ out = message_and_aggregate(adj_t(edge_index, GraphWeight, n), fx.val)

\* the sparse path returned a result that is not zero over a weighted
\* graph with an edge between two distinct nodes
C6_Witness ==
    /\ pc = "returned"
    /\ layout = "sparse"
    /\ adj_value.some
    /\ out # Zeros(n)
    /\ \E e \in 1..Len(edge_index) : edge_index[e][1] # edge_index[e][2]

\* ------------------------------------------------------------------ C10
\* C10: forward called with a tuple or list of node features fails with a
\* ValueError before any propagation and returns no result.
C10_TupleFeaturesRaise ==
    (fx.tuple /\ pc # "forward") =>
        /\ pc = "raised"
        /\ error = "ValueError"
        /\ propagations = 0
        /\ out = <<>>

\* a call with a feature tuple has ended
C10_Witness ==
    /\ fx.tuple
    /\ pc = "raised"
    /\ Len(edge_index) > 0

\* ------------------------------------------- get_raw_data, plot_fits_data
\* A file name is a sequence of characters.  A file is known by its name
\* and by the flag columns it stores.  The table read_events builds is kept
\* as the pair of files it was called with and whether its flags are the
\* stored column; its rows, the filters and the column selection of
\* get_raw_data (lines 126-128) and the drawing of plot_fits_data (lines
\* 58-106) are not modelled.
EVLI == <<"E", "V", "L", "I">>
EVLF == <<"E", "V", "L", "F">>

\* 'm in s' for strings
Contains(s, m) ==
    \E p \in 1..(Len(s) - Len(m) + 1) : SubSeq(s, p, p + Len(m) - 1) = m

\* s.replace(old, new): every occurrence of old, left to right, without
\* overlap
RECURSIVE str_replace(_, _, _)
str_replace(s, old, new) ==
    IF Len(s) < Len(old) THEN s
    ELSE IF SubSeq(s, 1, Len(old)) = old
         THEN new \o str_replace(SubSeq(s, Len(old) + 1, Len(s)), old, new)
         ELSE <<Head(s)>> \o str_replace(Tail(s), old, new)

\* the pieces the file names are put together from
Pieces == {EVLI, EVLF, <<"E", "V", "L">>, <<"I">>, <<"F">>, <<"P">>}

RECURSIVE Flatten(_)
Flatten(ps) == IF ps = <<>> THEN <<>> ELSE Head(ps) \o Flatten(Tail(ps))

FileNames == {Flatten(ps) : ps \in UNION {[1..k -> Pieces] : k \in 0..MaxPieces}}

\* the flag columns an event file may store
FlagColumns == {"ISEVENT", "ISSIMULATED"}

\* read_events(genuine, simulated, keys): both files are opened, the
\* genuine one first; a file that does not exist ends the call
read_events_opened(genuine, simulated) ==
    IF genuine \notin present THEN <<>>
    ELSE IF simulated \notin present THEN <<genuine>>
    ELSE <<genuine, simulated>>

InitReader ==
    /\ entry \in {"get_raw_data", "plot_fits_data"}
    /\ filename \in FileNames
    /\ present \in SUBSET {filename, str_replace(filename, EVLI, EVLF),
                           str_replace(filename, EVLF, EVLI)}
    /\ columns \in [present -> SUBSET FlagColumns]
    /\ calls = <<>>
    /\ opened = <<>>
    /\ table = NoTable
    /\ pc = entry
    /\ error = ""
    /\ n = 1
    /\ edge_index = <<>>
    /\ IdleClusters
    /\ IdleForward

\* the call of read_events with the genuine file g and the simulated one
\* s, the files in before opened already: a simulated file that stores the
\* ISSIMULATED column is handed back with it (lines 55-58); otherwise the
\* two tables are stacked with join_type 'exact' (line 62), which refuses
\* tables whose columns differ (the files agree on their event columns, so
\* the flag columns decide), and the column is built (lines 63-75)
ReadEvents(g, s, before) ==
    /\ calls' = Append(calls, <<g, s>>)
    /\ opened' = before \o read_events_opened(g, s)
    /\ IF Len(read_events_opened(g, s)) < 2
       THEN /\ table' = NoTable
            /\ pc' = "raised"
            /\ error' = "FileNotFoundError"
       ELSE IF "ISSIMULATED" \in columns[s]
       THEN /\ table' = [some |-> TRUE, genuine |-> g, simulated |-> s,
                         stored |-> TRUE]
            /\ pc' = "returned"
            /\ error' = ""
       ELSE IF columns[g] # columns[s]
       THEN /\ table' = NoTable
            /\ pc' = "raised"
            /\ error' = "TableMergeError"
       ELSE /\ table' = [some |-> TRUE, genuine |-> g, simulated |-> s,
                         stored |-> FALSE]
            /\ pc' = "returned"
            /\ error' = ""

\* variant of GetRawData: the EVLF branch hands the files over in the
\* order of the EVLI branch
GetRawDataSameOrder ==
    /\ pc = "get_raw_data"
    /\ IF Contains(filename, EVLI)
       THEN ReadEvents(filename, str_replace(filename, EVLI, EVLF), <<>>)
       ELSE IF Contains(filename, EVLF)
       THEN ReadEvents(filename, str_replace(filename, EVLF, EVLI), <<>>)
       ELSE /\ pc' = "raised"
            /\ error' = "Exception"
            /\ UNCHANGED <<calls, opened, table>>
    /\ UNCHANGED <<n, edge_index, gcVars, fwdVars, entry, filename, present,
                   columns>>

\* reader.py lines 117-128: the companion of an EVLI name is the EVLF name
\* and the other way round; any other name is refused
GetRawData ==
    /\ pc = "get_raw_data"
    /\ IF Contains(filename, EVLI)
       THEN ReadEvents(filename, str_replace(filename, EVLI, EVLF), <<>>)
       ELSE IF Contains(filename, EVLF)
       THEN ReadEvents(str_replace(filename, EVLF, EVLI), filename, <<>>)
       ELSE /\ pc' = "raised"
            /\ error' = "Exception"
            /\ UNCHANGED <<calls, opened, table>>
    /\ UNCHANGED <<n, edge_index, gcVars, fwdVars, entry, filename, present,
                   columns>>

\* plotter.py lines 43-56: the file is opened first; when it stores the
\* ISEVENT column it is drawn as it is, otherwise the events are read as
\* get_raw_data reads them, a name without marker being refused
PlotFitsData ==
    /\ pc = "plot_fits_data"
    /\ IF filename \notin present
       THEN /\ pc' = "raised"
            /\ error' = "FileNotFoundError"
            /\ UNCHANGED <<calls, opened, table>>
       ELSE IF "ISEVENT" \in columns[filename]
       THEN /\ opened' = <<filename>>
            /\ pc' = "returned"
            /\ error' = ""
            /\ UNCHANGED <<calls, table>>
       ELSE IF Contains(filename, EVLI)
       THEN ReadEvents(filename, str_replace(filename, EVLI, EVLF), <<filename>>)
       ELSE IF Contains(filename, EVLF)
       THEN ReadEvents(str_replace(filename, EVLF, EVLI), filename, <<filename>>)
       ELSE /\ opened' = <<filename>>
            /\ pc' = "raised"
            /\ error' = "Exception"
            /\ UNCHANGED <<calls, table>>
    /\ UNCHANGED <<n, edge_index, gcVars, fwdVars, entry, filename, present,
                   columns>>

NextReader == GetRawData \/ PlotFitsData

SpecReader == InitReader /\ [][NextReader]_vars

\* s with the last letter of every occurrence of marker m set to c
SwapLast(s, m, c) ==
    [p \in 1..Len(s) |->
        IF p >= Len(m) /\ SubSeq(s, p - Len(m) + 1, p) = m THEN c ELSE s[p]]

\* ------------------------------------------------------------------ C11
\* C11: get_raw_data on a file name with neither 'EVLI' nor 'EVLF' raises
\* before any file is read and returns no table; on a name with a marker it
\* calls read_events once.  In every call of read_events, from get_raw_data
\* or from plot_fits_data, the companion is the same name with the marker
\* swapped for the other, the EVLI file is handed over as the genuine file
\* and the EVLF file as the simulated one; a name without marker is never
\* handed to read_events, and a call that raises leaves no table.
C11_CompanionByMarker ==
    (pc \notin {"get_raw_data", "plot_fits_data"}) =>
      /\ pc = "raised" => table = NoTable
      /\ IF ~Contains(filename, EVLI) /\ ~Contains(filename, EVLF)
           THEN /\ calls = <<>>
                /\ table = NoTable
                /\ entry = "get_raw_data" =>
                      /\ pc = "raised"
                      /\ error = "Exception"
                      /\ opened = <<>>
           ELSE /\ entry = "get_raw_data" => Len(calls) = 1
                /\ Len(calls) <= 1
                /\ \A c \in 1..Len(calls) :
                      LET genuine   == calls[c][1]
                          simulated == calls[c][2]
                      IN  /\ Contains(genuine, EVLI)
                          /\ Contains(simulated, EVLF)
                          /\ ~Contains(simulated, EVLI)
                          /\ filename \in {genuine, simulated}
                          /\ simulated = SwapLast(genuine, EVLI, "F")
                          /\ filename = simulated =>
                                genuine = SwapLast(simulated, EVLF, "I")
                /\ table.some =>
                      /\ Len(calls) = 1
                      /\ table.genuine = calls[1][1]
                      /\ table.simulated = calls[1][2]

\* get_raw_data on an EVLF name returned a table, the marker not at the
\* start of the name
C11_Witness ==
    /\ entry = "get_raw_data"
    /\ pc = "returned"
    /\ table.some
    /\ ~Contains(filename, EVLI)
    /\ Len(filename) > 4
    /\ SubSeq(filename, 1, 4) # EVLF

\* ------------------------------------------------------------------ C12
\* C12 as stated: in get_clusters every entry of the score vector is
\* strictly positive in every reachable state: an accumulation leaves every
\* entry at least as large as it was, the maximum that divides is positive,
\* and after the division every entry lies in (0, 1].
C12_ScoresStayPositive ==
    /\ [](/\ elaborated_data.den > 0
          /\ \A k \in 1..n : elaborated_data.num[k] > 0
          /\ pc = "renormalize" => SeqMax(elaborated_data.num) > 0
          /\ (i >= 1 /\ pc \in {"for", "returned", "raised"}) =>
                \A k \in 1..n : elaborated_data.num[k] <= elaborated_data.den)
    /\ [][(pc = "for" /\ pc' = "threshold") =>
             \A k \in 1..n :
                elaborated_data'.num[k] * elaborated_data.den
                   >= elaborated_data.num[k] * elaborated_data'.den]_vars

\* the bits the largest number of edges into one node, plus one, is
\* written with: no division is by more than 2^MaxBits(ei, nn)
MaxBits(ei, nn) ==
    LET d == CHOOSE d \in 0..Len(ei) :
                /\ \E k \in 1..nn : Cardinality({e \in 1..Len(ei) : ei[e][2] = k}) = d
                /\ \A k \in 1..nn : Cardinality({e \in 1..Len(ei) : ei[e][2] = k}) <= d
        b == CHOOSE b \in 0..Len(ei) : 2^b >= d + 1 /\ (b = 0 \/ 2^(b - 1) < d + 1)
    IN  b

\* C12 as amended: in get_clusters no entry of the score vector is ever
\* negative, and an entry is 0 only once the divisions made have taken it
\* below float32's range, which takes at least 150 doublings of the
\* divisor; an accumulation leaves every entry at least as large as it was;
\* the maximum that divides is at least 1, so never zero; after the
\* division every entry lies in [0, 1].
C12_ScoresStayNonNegative ==
    /\ [](/\ elaborated_data.den > 0
          /\ \A k \in 1..n :
                /\ elaborated_data.num[k] >= 0
                /\ elaborated_data.num[k] = 0 =>
                      i * MaxBits(edge_index, n) > MinSubnormal
          /\ pc = "renormalize" =>
                \E k \in 1..n :
                    LeqPow(elaborated_data.den, elaborated_data.num[k],
                           -elaborated_data.exp[k])
          /\ (i >= 1 /\ pc \in {"for", "returned", "raised"}) =>
                \A k \in 1..n :
                    LeqPow(elaborated_data.num[k], elaborated_data.den,
                           elaborated_data.exp[k]))
    /\ [][(pc = "for" /\ pc' = "threshold") =>
             \A k \in 1..n :
                LeqPow(elaborated_data.num[k] * elaborated_data'.den,
                       elaborated_data'.num[k] * elaborated_data.den,
                       elaborated_data.exp[k] - elaborated_data'.exp[k])]_vars

\* a run of 150 layers or more has returned: the score of a node without
\* incoming edges is 0, the score of a returned node is 1
C12_Witness ==
    /\ pc = "returned"
    /\ i >= DeepLayers
    /\ \E k \in 1..n :
          /\ k \notin Targets(edge_index)
          /\ elaborated_data.num[k] = 0
          /\ ~mask[k]
    /\ \E j \in 1..Len(masked_sizes) : masked_sizes[j] = <<1, 1>>

\* ------------------------------------------------------------------ C13
\* C13: for L >= 1 the mask is never empty: it holds every node whose
\* float32 score is the largest of the iteration the mask was computed in
\* (at "threshold" the score is already that of the next iteration), all
\* nodes of largest score while the scores are exact, so the points handed
\* to the density clusterer are at least one and the returned scores, read
\* after the division, contain the value 1.
C13_MaskHoldsTheMaximum ==
    /\ at_max # {}
    /\ at_max \subseteq argmax(elaborated_data)
    /\ ("mask" \in bound) => Count(mask) >= 1
    /\ ("mask" \in bound /\ pc # "threshold") =>
          /\ \A k \in at_max : mask[k]
          /\ (i + (IF pc = "renormalize" THEN 1 ELSE 0) = 1) =>
                \A k \in argmax(elaborated_data) : mask[k]
    /\ pc = "returned" =>
          /\ Len(masked_data) >= 1
          /\ Len(masked_data) = Count(mask)
          /\ Len(masked_sizes) = Count(mask)
          /\ \E j \in 1..Len(masked_sizes) :
                /\ masked_sizes[j] = <<1, 1>>
                /\ masked_data[j] \in at_max

\* a run returned a single node out of three, the others scoring less
C13_Witness ==
    /\ pc = "returned"
    /\ n = 3
    /\ Count(mask) = 1
    /\ masked_sizes = <<<<1, 1>>>>

====
